---- MODULE Spec2Model ----
(***************************************************************************)
(* Model of the semantic-release "success" hook that announces a release   *)
(* in a Slack channel: src/index.js (the current plugin) and               *)
(* src/unnamed/part_000 (an earlier copy of the same hook that has no      *)
(* asset resolution, no prerelease guard and no failure recovery).         *)
(*                                                                         *)
(* One run of success(pluginConfig, context) is one behaviour.  The inputs *)
(* (environment, pluginConfig, context, filesystem) are chosen by Init and *)
(* never change, except that a file may vanish from the filesystem before  *)
(* its upload.  Every await of a transport call is two steps: the call is  *)
(* issued (appended to calls) and then returns or throws.                  *)
(*                                                                         *)
(* Texts are sequences of string segments, so that "begins with",          *)
(* "followed by" and "appends" are statements about sequences.             *)
(*                                                                         *)
(* The Slack client is outside the repository.  A call that returns has    *)
(* taken effect in the channel, a call that throws has not; the response   *)
(* of chat.postMessage carries the posted text as message.text.  The       *)
(* logger never throws.                                                    *)
(***************************************************************************)
EXTENDS Naturals, Sequences, FiniteSets, TLC

VARIABLES
    slackToken,      \* process.env.SLACK_TOKEN ("" when not set)
    slackChannel,    \* process.env.SLACK_CHANNEL ("" when not set)
    pluginConfig,    \* [assets, changelog, lastCommitText, lastLine, message, prerelease]
    nextRelease,     \* context.nextRelease: [version, notes]
    commits,         \* context.commits: sequence of messages, each a sequence of lines
    branch,          \* context.branch: [name, prerelease]
    fs,              \* the files that exist on disk
    pc,              \* position of the run in success()
    assets,          \* the object iterated by the upload loop: sequence of [file, label]
    idx,             \* position of the upload loop in Object.entries(assets)
    lastCommitBody,  \* the cleaned body of the latest commit
    downloadLinks,   \* let downloadLinks = []
    initialMessage,  \* <<>> while undefined, else <<[ts, text]>>
    threadTs,        \* "" while undefined, else the ts of the initial post
    error,           \* <<>> or <<e>>: the error caught by the catch block
    outcome,         \* "running", "returned" or "raised"
    thrown,          \* <<>> or <<e>>: the error success() rejected with
    globCalls,       \* the patterns handed to fastGlob, in order
    calls,           \* the transport calls issued, in order
    msgText,         \* <<>> or <<text>>: the text the announcement holds in the channel
    anomalous        \* the files logged by logger.error('Failed to upload ...')

vars == <<slackToken, slackChannel, pluginConfig, nextRelease, commits, branch, fs,
          pc, assets, idx, lastCommitBody, downloadLinks, initialMessage, threadTs,
          error, outcome, thrown, globCalls, calls, msgText, anomalous>>

inputs == <<slackToken, slackChannel, pluginConfig, nextRelease, commits, branch>>

----------------------------------------------------------------------------
(* Bounds and the input universe.                                          *)

MaxDecls == 2

Tokens == {"", "xoxb-token"}
Channels == {"", "C-releases"}
Versions == {"1.2.0"}
Notes == {"", "fix bug"}
Labels == {"Binary", "Library"}
LastLines == {"", "Thanks!"}
TsIds == {"1700.1", "1700.2"}

VersionPlaceholder == "${nextRelease.version}"
NotesPlaceholder == "${nextRelease.notes}"

Files == {"dist/app.bin", "dist/lib.so", "out/1.2.0.zip"}

\* The keys a user may declare under pluginConfig.assets, as template segments.
RawPatterns ==
    { <<"dist/app.bin">>, <<"dist/*">>, <<"out/", VersionPlaceholder, ".zip">> }

\* Commit messages, as sequences of lines.
CommitMessages ==
    { <<"fix: bug", "", "Details here", "Signed-off-by: X">> }

DefaultSection ==
    [changelog |-> FALSE, lastCommitText |-> FALSE, lastLine |-> "", message |-> <<>>]

Sections ==
    [changelog : BOOLEAN, lastCommitText : {TRUE}, lastLine : LastLines,
     message : {<<>>}]

RECURSIVE SeqsNoDup(_, _)
SeqsNoDup(S, n) ==
    IF n = 0 THEN {<<>>}
    ELSE LET shorter == SeqsNoDup(S, n - 1)
         IN  shorter \cup
             { Append(s, x) : s \in {t \in shorter : Len(t) = n - 1},
                              x \in S }

KeysOf(decls) == { decls[i].pattern : i \in 1..Len(decls) }

\* Object literals: ordered, and a key occurs once.
AssetDeclarations ==
    { d \in SeqsNoDup([pattern : RawPatterns, label : Labels], MaxDecls) :
        Cardinality(KeysOf(d)) = Len(d) }

----------------------------------------------------------------------------
(* Pure helpers.                                                           *)

RECURSIVE Concat(_)
Concat(segs) ==
    IF segs = <<>> THEN "" ELSE Head(segs) \o Concat(Tail(segs))

RECURSIVE Join(_, _)
Join(lines, sep) ==
    IF lines = <<>> THEN <<>>
    ELSE IF Len(lines) = 1 THEN <<lines[1]>>
    ELSE <<lines[1], sep>> \o Join(Tail(lines), sep)

ReplaceAll(template, placeholder, value) ==
    [i \in 1..Len(template) |->
        IF template[i] = placeholder THEN value ELSE template[i]]

interpolateString(template, release) ==
    ReplaceAll(ReplaceAll(template, VersionPlaceholder, release.version),
               NotesPlaceholder, release.notes)

\* What fast-glob yields for a pattern when every file of Files exists.
GlobCandidates(pattern) ==
    CASE pattern = "dist/app.bin"  -> <<"dist/app.bin">>
      [] pattern = "dist/*"        -> <<"dist/app.bin", "dist/lib.so">>
      [] pattern = "out/1.2.0.zip" -> <<"out/1.2.0.zip">>
      [] OTHER                     -> <<>>

fastGlob(pattern, disk) ==
    LET OnDisk(f) == f \in disk
    IN  SelectSeq(GlobCandidates(pattern), OnDisk)

----------------------------------------------------------------------------
(* The configuration derived at the top of success().                      *)

rawAssets == pluginConfig.assets
isPrerelease == branch.prerelease
prereleaseConfig == pluginConfig.prerelease
prereleaseEnabled == prereleaseConfig.enabled

EffectiveSection == IF isPrerelease THEN prereleaseConfig ELSE pluginConfig

includeChangelog == EffectiveSection.changelog
includeLastCommitText == EffectiveSection.lastCommitText
lastLine == EffectiveSection.lastLine

rawMessageTemplate ==
    IF isPrerelease
    THEN IF prereleaseConfig.message # <<>> THEN prereleaseConfig.message
         ELSE <<"Prerelease: ", nextRelease.version>>
    ELSE IF pluginConfig.message # <<>> THEN pluginConfig.message
         ELSE <<"New release: ", nextRelease.version>>

----------------------------------------------------------------------------
(* resolveAssets: the object built by the loop over Object.entries.        *)

HasKey(obj, file) == \E i \in 1..Len(obj) : obj[i].file = file

\* Mutation: a key that is already set keeps its first label.
Mutant_FirstWriteWins(obj, file, label) ==
    IF HasKey(obj, file) THEN obj
    ELSE Append(obj, [file |-> file, label |-> label])

\* obj[file] = label: a new key goes last, an existing key keeps its place.
SetKey(obj, file, label) ==
    IF HasKey(obj, file)
    THEN [i \in 1..Len(obj) |->
            IF obj[i].file = file THEN [file |-> file, label |-> label] ELSE obj[i]]
    ELSE Append(obj, [file |-> file, label |-> label])

RECURSIVE SetKeys(_, _, _)
SetKeys(obj, matchedFiles, label) ==
    IF matchedFiles = <<>> THEN obj
    ELSE SetKeys(SetKey(obj, Head(matchedFiles), label), Tail(matchedFiles), label)

\* Mutation: the loop stops at the first pattern that matches nothing.
RECURSIVE Mutant_ResolveFailFast(_, _, _, _)
Mutant_ResolveFailFast(decls, release, disk, acc) ==
    IF decls = <<>> \/ acc.missingAssets # <<>> THEN acc
    ELSE LET interpolatedPath == Concat(interpolateString(Head(decls).pattern, release))
             matchedFiles == fastGlob(interpolatedPath, disk)
             next ==
                 [resolvedAssets |->
                      IF matchedFiles = <<>> THEN acc.resolvedAssets
                      ELSE SetKeys(acc.resolvedAssets, matchedFiles, Head(decls).label),
                  missingAssets |->
                      IF matchedFiles = <<>>
                      THEN Append(acc.missingAssets, interpolatedPath)
                      ELSE acc.missingAssets,
                  globbed |-> Append(acc.globbed, interpolatedPath)]
         IN  Mutant_ResolveFailFast(Tail(decls), release, disk, next)

RECURSIVE ResolveLoop(_, _, _, _)
ResolveLoop(decls, release, disk, acc) ==
    IF decls = <<>> THEN acc
    ELSE LET interpolatedPath == Concat(interpolateString(Head(decls).pattern, release))
             matchedFiles == fastGlob(interpolatedPath, disk)
             next ==
                 [resolvedAssets |->
                      IF matchedFiles = <<>> THEN acc.resolvedAssets
                      ELSE SetKeys(acc.resolvedAssets, matchedFiles, Head(decls).label),
                  missingAssets |->
                      IF matchedFiles = <<>>
                      THEN Append(acc.missingAssets, interpolatedPath)
                      ELSE acc.missingAssets,
                  globbed |-> Append(acc.globbed, interpolatedPath)]
         IN  ResolveLoop(Tail(decls), release, disk, next)

resolveAssets(decls, release, disk) ==
    ResolveLoop(decls, release, disk,
                [resolvedAssets |-> <<>>, missingAssets |-> <<>>, globbed |-> <<>>])

----------------------------------------------------------------------------
(* Errors.                                                                 *)

ErrorOf(kind, message, missing) ==
    [kind |-> kind, message |-> message, missing |-> missing]

ConfigErr ==
    ErrorOf("config",
            "SLACK_TOKEN or SLACK_CHANNEL is not set in the environment variables.",
            <<>>)

MissingAssetsErr(missingAssets) ==
    ErrorOf("missing-assets",
            "The following required assets were not found:\n"
                \o Concat(Join(missingAssets, "\n")),
            missingAssets)

FileNotFoundErr(resolvedPath) ==
    ErrorOf("file-not-found", "Resolved file not found: " \o resolvedPath, <<>>)

\* What a transport call rejects with; the site tells the calls apart.
TransportErr(site) ==
    ErrorOf("transport", "slack " \o site \o " failed", <<>>)

----------------------------------------------------------------------------
(* The last commit's body and the message texts.                           *)

BlankLines == {"", "  "}
TrailerLines == {"Signed-off-by: X", "  co-authored-by: y"}

\* line.trim() !== '' && no signed-off-by: / co-authored-by: prefix
KeepLine(line) == line \notin BlankLines /\ line \notin TrailerLines

ExtractLastCommitBody(include, commitList) ==
    IF include /\ Len(commitList) > 0
    THEN Concat(Join(SelectSeq(Tail(commitList[1]), KeepLine), "\n"))
    ELSE ""

\* Mutation: the changelog is added whenever there are notes.
Mutant_ChangelogIgnoresFlag ==
    <<Concat(interpolateString(rawMessageTemplate, nextRelease)), "\n\n">>
    \o (IF includeLastCommitText /\ lastCommitBody # ""
        THEN <<"*Description:*\n", lastCommitBody, "\n\n">> ELSE <<>>)
    \o (IF nextRelease.notes # ""
        THEN <<"*Changelog:*\n", nextRelease.notes, "\n\n">> ELSE <<>>)

formatMessage ==
    <<Concat(interpolateString(rawMessageTemplate, nextRelease)), "\n\n">>
    \o (IF includeLastCommitText /\ lastCommitBody # ""
        THEN <<"*Description:*\n", lastCommitBody, "\n\n">> ELSE <<>>)
    \o (IF includeChangelog /\ nextRelease.notes # ""
        THEN <<"*Changelog:*\n", nextRelease.notes, "\n\n">> ELSE <<>>)

DownloadLinksHeader == "*Download Links:*\n"

LinkLine(label, url) == "* " \o label \o ": <" \o url \o "|Download>"

\* Mutation: the configured last line is forgotten.
Mutant_UpdateWithoutLastLine ==
    formatMessage \o <<DownloadLinksHeader>> \o Join(downloadLinks, "\n")

updatedMessage ==
    formatMessage \o <<DownloadLinksHeader>> \o Join(downloadLinks, "\n")
    \o (IF lastLine # "" THEN <<"\n\n", lastLine>> ELSE <<>>)

CautionSuffix ==
    "\n\n:x: *An issue occurred with this release. Users are advised NOT to use this version.*"

\* Mutation: the note replaces the text instead of following it.
Mutant_NoteReplacesText(text) == <<CautionSuffix>>

updatedMessageWithError(text) == Append(text, CautionSuffix)

ErrorReplyText(e) ==
    <<":x: An error occurred during the release process:\n", e.message>>

\* path.resolve(filePath): the path made absolute against the working directory
pathResolve(filePath) == "/repo/" \o filePath

\* fs.existsSync(resolvedPath)
existsSync(resolvedPath, disk) == \E f \in disk : pathResolve(f) = resolvedPath

\* url_private_download of an uploaded file, as the transport reports it.
UrlOf(file) == "https://files/" \o file

----------------------------------------------------------------------------
(* Transport calls.                                                        *)

Call(site, api, ts, text, file, title) ==
    [site |-> site, api |-> api, channel |-> slackChannel, ts |-> ts,
     text |-> text, file |-> file, title |-> title]

Issue(call) == calls' = Append(calls, call)

----------------------------------------------------------------------------
(* Initial states: the inputs of one invocation, nothing done yet.         *)

CommitLists == { <<m>> : m \in CommitMessages }

\* The section that the branch does not select is left at its defaults.
PluginConfigs ==
    { [assets |-> d, changelog |-> base.changelog,
       lastCommitText |-> base.lastCommitText, lastLine |-> base.lastLine,
       message |-> base.message,
       prerelease |-> [enabled |-> en, changelog |-> pre.changelog,
                       lastCommitText |-> pre.lastCommitText,
                       lastLine |-> pre.lastLine, message |-> pre.message]] :
        d \in AssetDeclarations, en \in BOOLEAN,
        base \in Sections \cup {DefaultSection},
        pre \in Sections \cup {DefaultSection} }

Branches == { [name |-> "main", prerelease |-> FALSE],
              [name |-> "beta", prerelease |-> TRUE] }

InitState ==
    /\ pc = "entry"
    /\ assets = <<>>
    /\ idx = 1
    /\ lastCommitBody = ""
    /\ downloadLinks = <<>>
    /\ initialMessage = <<>>
    /\ threadTs = ""
    /\ error = <<>>
    /\ outcome = "running"
    /\ thrown = <<>>
    /\ globCalls = <<>>
    /\ calls = <<>>
    /\ msgText = <<>>
    /\ anomalous = <<>>

Init ==
    /\ slackToken \in Tokens
    /\ slackChannel \in Channels
    /\ branch \in Branches
    /\ pluginConfig \in
         { c \in PluginConfigs :
             IF branch.prerelease
             THEN [f \in DOMAIN DefaultSection |-> c[f]] = DefaultSection
             ELSE [f \in DOMAIN DefaultSection |-> c.prerelease[f]] = DefaultSection }
    /\ nextRelease \in [version : Versions, notes : Notes]
    /\ commits \in CommitLists
    /\ fs \in SUBSET Files
    /\ InitState

----------------------------------------------------------------------------
(* success() of src/index.js, one action per step.                         *)

Catch(e) ==
    /\ error' = <<e>>
    /\ pc' = "catch"

Reject(e) ==
    /\ outcome' = "raised"
    /\ thrown' = <<e>>
    /\ pc' = "done"

Return ==
    /\ outcome' = "returned"
    /\ pc' = "done"

\* if (!slackToken || !slackChannel) throw
ConfigError ==
    /\ pc = "entry"
    /\ slackToken = "" \/ slackChannel = ""
    /\ Reject(ConfigErr)
    /\ UNCHANGED <<inputs, fs, assets, idx, lastCommitBody, downloadLinks,
                   initialMessage, threadTs, error, globCalls, calls, msgText,
                   anomalous>>

\* Mutation: the prerelease guard runs before the credential check.
Mutant_SkipBeforeCredentials ==
    /\ pc = "entry"
    /\ ~prereleaseEnabled /\ isPrerelease
    /\ Return
    /\ UNCHANGED <<inputs, fs, assets, idx, lastCommitBody, downloadLinks,
                   initialMessage, threadTs, error, thrown, globCalls, calls, msgText,
                   anomalous>>

\* if (!prereleaseEnabled && isPrerelease) return
SkipPrerelease ==
    /\ pc = "entry"
    /\ slackToken # "" /\ slackChannel # ""
    /\ ~prereleaseEnabled /\ isPrerelease
    /\ Return
    /\ UNCHANGED <<inputs, fs, assets, idx, lastCommitBody, downloadLinks,
                   initialMessage, threadTs, error, thrown, globCalls, calls, msgText,
                   anomalous>>

\* Mutation: the prerelease guard is missing.
Mutant_EnterWithoutGuard ==
    /\ pc = "entry"
    /\ slackToken # "" /\ slackChannel # ""
    /\ pc' = "resolve"
    /\ UNCHANGED <<inputs, fs, assets, idx, lastCommitBody, downloadLinks,
                   initialMessage, threadTs, error, outcome, thrown, globCalls,
                   calls, msgText, anomalous>>

Enter ==
    /\ pc = "entry"
    /\ slackToken # "" /\ slackChannel # ""
    /\ ~(~prereleaseEnabled /\ isPrerelease)
    /\ pc' = "resolve"
    /\ UNCHANGED <<inputs, fs, assets, idx, lastCommitBody, downloadLinks,
                   initialMessage, threadTs, error, outcome, thrown, globCalls,
                   calls, msgText,
                   anomalous>>

\* Mutation: unmatched patterns are only logged and the run goes on to post.
Mutant_ResolveWarnsOnly ==
    /\ pc = "resolve"
    /\ LET r == resolveAssets(rawAssets, nextRelease, fs)
       IN  /\ r.missingAssets # <<>>
           /\ globCalls' = globCalls \o r.globbed
           /\ assets' = r.resolvedAssets
    /\ lastCommitBody' = ExtractLastCommitBody(includeLastCommitText, commits)
    /\ pc' = "post"
    /\ UNCHANGED <<inputs, fs, idx, downloadLinks, initialMessage, threadTs, error,
                   outcome, thrown, calls, msgText, anomalous>>

\* await resolveAssets() throws: some pattern matched no file
ResolveFails ==
    /\ pc = "resolve"
    /\ LET r == resolveAssets(rawAssets, nextRelease, fs)
       IN  /\ r.missingAssets # <<>>
           /\ globCalls' = globCalls \o r.globbed
           /\ Catch(MissingAssetsErr(r.missingAssets))
    /\ UNCHANGED <<inputs, fs, assets, idx, lastCommitBody, downloadLinks,
                   initialMessage, threadTs, outcome, thrown, calls, msgText,
                   anomalous>>

\* const assets = await resolveAssets(); then the last commit's body
ResolveOk ==
    /\ pc = "resolve"
    /\ LET r == resolveAssets(rawAssets, nextRelease, fs)
       IN  /\ r.missingAssets = <<>>
           /\ globCalls' = globCalls \o r.globbed
           /\ assets' = r.resolvedAssets
    /\ lastCommitBody' = ExtractLastCommitBody(includeLastCommitText, commits)
    /\ pc' = "post"
    /\ UNCHANGED <<inputs, fs, idx, downloadLinks, initialMessage, threadTs, error,
                   outcome, thrown, calls, msgText,
                   anomalous>>

\* slackClient.chat.postMessage({channel, text: formatMessage()}) is issued
PostCall ==
    /\ pc = "post"
    /\ Issue(Call("post", "chat.postMessage", "", formatMessage, "", ""))
    /\ pc' = "post_await"
    /\ UNCHANGED <<inputs, fs, assets, idx, lastCommitBody, downloadLinks,
                   initialMessage, threadTs, error, outcome, thrown, globCalls, msgText,
                   anomalous>>

\* initialMessage = <response>; threadTs = initialMessage.ts
PostReturns ==
    /\ pc = "post_await"
    /\ \E ts \in TsIds :
         /\ initialMessage' = <<[ts |-> ts, text |-> calls[Len(calls)].text]>>
         /\ threadTs' = ts
    /\ msgText' = <<calls[Len(calls)].text>>
    /\ idx' = 1
    /\ pc' = "loop"
    /\ UNCHANGED <<inputs, fs, assets, lastCommitBody, downloadLinks, error, outcome,
                   thrown, globCalls, calls,
                   anomalous>>

PostThrows ==
    /\ pc = "post_await"
    /\ Catch(TransportErr("post"))
    /\ UNCHANGED <<inputs, fs, assets, idx, lastCommitBody, downloadLinks,
                   initialMessage, threadTs, outcome, thrown, globCalls, calls, msgText,
                   anomalous>>

\* fs.existsSync(resolvedPath) holds: files.uploadV2 is issued
UploadCall ==
    /\ pc = "loop"
    /\ idx <= Len(assets)
    /\ existsSync(pathResolve(assets[idx].file), fs)
    /\ Issue(Call("upload", "files.uploadV2", threadTs,
                  <<"attachment: ", assets[idx].label>>,
                  pathResolve(assets[idx].file), assets[idx].label))
    /\ pc' = "upload_await"
    /\ UNCHANGED <<inputs, fs, assets, idx, lastCommitBody, downloadLinks,
                   initialMessage, threadTs, error, outcome, thrown, globCalls, msgText,
                   anomalous>>

\* the file is gone when its turn comes: throw new Error('Resolved file not found')
FileMissing ==
    /\ pc = "loop"
    /\ idx <= Len(assets)
    /\ fs' = fs \ {assets[idx].file}
    /\ ~existsSync(pathResolve(assets[idx].file), fs')
    /\ Catch(FileNotFoundErr(pathResolve(assets[idx].file)))
    /\ UNCHANGED <<inputs, assets, idx, lastCommitBody, downloadLinks, initialMessage,
                   threadTs, outcome, thrown, globCalls, calls, msgText,
                   anomalous>>

\* Mutation: the new line is put in front (unshift instead of push).
Mutant_LinkPrepended ==
    /\ pc = "upload_await"
    /\ downloadLinks' =
         <<LinkLine(assets[idx].label, UrlOf(assets[idx].file))>> \o downloadLinks
    /\ idx' = idx + 1
    /\ pc' = "loop"
    /\ UNCHANGED <<inputs, fs, assets, lastCommitBody, initialMessage, threadTs, error,
                   outcome, thrown, globCalls, calls, msgText, anomalous>>

\* fileResponse.ok with file metadata: downloadLinks.push(...)
UploadOk ==
    /\ pc = "upload_await"
    /\ downloadLinks' =
         Append(downloadLinks, LinkLine(assets[idx].label, UrlOf(assets[idx].file)))
    /\ idx' = idx + 1
    /\ pc' = "loop"
    /\ UNCHANGED <<inputs, fs, assets, lastCommitBody, initialMessage, threadTs, error,
                   outcome, thrown, globCalls, calls, msgText,
                   anomalous>>

\* Mutation: a response that is not ok is thrown like a transport error.
Mutant_AnomalyIsFatal ==
    /\ pc = "upload_await"
    /\ anomalous' = Append(anomalous, assets[idx].file)
    /\ Catch(TransportErr("upload"))
    /\ UNCHANGED <<inputs, fs, assets, idx, lastCommitBody, downloadLinks,
                   initialMessage, threadTs, outcome, thrown, globCalls, calls, msgText>>

\* the call returns, not ok or without file metadata: logger.error, next asset
UploadAnomalous ==
    /\ pc = "upload_await"
    /\ anomalous' = Append(anomalous, assets[idx].file)
    /\ idx' = idx + 1
    /\ pc' = "loop"
    /\ UNCHANGED <<inputs, fs, assets, lastCommitBody, downloadLinks, initialMessage,
                   threadTs, error, outcome, thrown, globCalls, calls, msgText>>

\* Mutation: a rejected upload is tried again.
Mutant_UploadRetried ==
    /\ pc = "upload_await"
    /\ pc' = "loop"
    /\ UNCHANGED <<inputs, fs, assets, idx, lastCommitBody, downloadLinks,
                   initialMessage, threadTs, error, outcome, thrown, globCalls, calls,
                   msgText, anomalous>>

UploadThrows ==
    /\ pc = "upload_await"
    /\ Catch(TransportErr("upload"))
    /\ UNCHANGED <<inputs, fs, assets, idx, lastCommitBody, downloadLinks,
                   initialMessage, threadTs, outcome, thrown, globCalls, calls, msgText,
                   anomalous>>

\* downloadLinks.length > 0: slackClient.chat.update({ts: threadTs, text}) is issued
UpdateCall ==
    /\ pc = "loop"
    /\ idx > Len(assets)
    /\ Len(downloadLinks) > 0
    /\ Issue(Call("update", "chat.update", threadTs, updatedMessage, "", ""))
    /\ pc' = "update_await"
    /\ UNCHANGED <<inputs, fs, assets, idx, lastCommitBody, downloadLinks,
                   initialMessage, threadTs, error, outcome, thrown, globCalls, msgText,
                   anomalous>>

\* Mutation: ending the loop without a link is thrown as an error.
Mutant_NoLinksThrows ==
    /\ pc = "loop"
    /\ idx > Len(assets)
    /\ Len(downloadLinks) = 0
    /\ Catch(ErrorOf("no-files", "No files uploaded.", <<>>))
    /\ UNCHANGED <<inputs, fs, assets, idx, lastCommitBody, downloadLinks,
                   initialMessage, threadTs, outcome, thrown, globCalls, calls, msgText,
                   anomalous>>

\* no link: logger.warn('No files uploaded...') and the function ends
NoUpdate ==
    /\ pc = "loop"
    /\ idx > Len(assets)
    /\ Len(downloadLinks) = 0
    /\ Return
    /\ UNCHANGED <<inputs, fs, assets, idx, lastCommitBody, downloadLinks,
                   initialMessage, threadTs, error, thrown, globCalls, calls, msgText,
                   anomalous>>

UpdateReturns ==
    /\ pc = "update_await"
    /\ msgText' = <<calls[Len(calls)].text>>
    /\ Return
    /\ UNCHANGED <<inputs, fs, assets, idx, lastCommitBody, downloadLinks,
                   initialMessage, threadTs, error, thrown, globCalls, calls,
                   anomalous>>

\* Mutation: a failed update starts the upload loop again.
Mutant_UpdateRestartsUploads ==
    /\ pc = "update_await"
    /\ pc' = "loop"
    /\ idx' = 1
    /\ UNCHANGED <<inputs, fs, assets, lastCommitBody, downloadLinks,
                   initialMessage, threadTs, error, outcome, thrown, globCalls,
                   calls, msgText, anomalous>>

UpdateThrows ==
    /\ pc = "update_await"
    /\ Catch(TransportErr("update"))
    /\ UNCHANGED <<inputs, fs, assets, idx, lastCommitBody, downloadLinks,
                   initialMessage, threadTs, outcome, thrown, globCalls, calls, msgText,
                   anomalous>>

----------------------------------------------------------------------------
(* The catch block of src/index.js.                                        *)

\* Mutation: the error note is posted without thread_ts.
Mutant_ReplyOutsideThread ==
    /\ pc = "catch"
    /\ threadTs # ""
    /\ Issue(Call("reply", "chat.postMessage", "", ErrorReplyText(error[1]), "", ""))
    /\ pc' = "reply_await"
    /\ UNCHANGED <<inputs, fs, assets, idx, lastCommitBody, downloadLinks,
                   initialMessage, threadTs, error, outcome, thrown, globCalls, msgText,
                   anomalous>>

\* if (threadTs): chat.postMessage({thread_ts: threadTs, text: error note}) is issued
ReplyCall ==
    /\ pc = "catch"
    /\ threadTs # ""
    /\ Issue(Call("reply", "chat.postMessage", threadTs, ErrorReplyText(error[1]),
                  "", ""))
    /\ pc' = "reply_await"
    /\ UNCHANGED <<inputs, fs, assets, idx, lastCommitBody, downloadLinks,
                   initialMessage, threadTs, error, outcome, thrown, globCalls, msgText,
                   anomalous>>

SkipReply ==
    /\ pc = "catch"
    /\ threadTs = ""
    /\ pc' = "catch_note"
    /\ UNCHANGED <<inputs, fs, assets, idx, lastCommitBody, downloadLinks,
                   initialMessage, threadTs, error, outcome, thrown, globCalls, calls,
                   msgText,
                   anomalous>>

ReplyReturns ==
    /\ pc = "reply_await"
    /\ pc' = "catch_note"
    /\ UNCHANGED <<inputs, fs, assets, idx, lastCommitBody, downloadLinks,
                   initialMessage, threadTs, error, outcome, thrown, globCalls, calls,
                   msgText,
                   anomalous>>

\* the await inside the catch block rejects: that rejection leaves success()
ReplyThrows ==
    /\ pc = "reply_await"
    /\ Reject(TransportErr("reply"))
    /\ UNCHANGED <<inputs, fs, assets, idx, lastCommitBody, downloadLinks,
                   initialMessage, threadTs, error, globCalls, calls, msgText,
                   anomalous>>

\* if (initialMessage): chat.update({ts: initialMessage.ts, text + note}) is issued
CautionCall ==
    /\ pc = "catch_note"
    /\ initialMessage # <<>>
    /\ Issue(Call("caution", "chat.update", initialMessage[1].ts,
                  updatedMessageWithError(initialMessage[1].text), "", ""))
    /\ pc' = "caution_await"
    /\ UNCHANGED <<inputs, fs, assets, idx, lastCommitBody, downloadLinks,
                   initialMessage, threadTs, error, outcome, thrown, globCalls, msgText,
                   anomalous>>

\* no initial message: throw error
Rethrow ==
    /\ pc = "catch_note"
    /\ initialMessage = <<>>
    /\ Reject(error[1])
    /\ UNCHANGED <<inputs, fs, assets, idx, lastCommitBody, downloadLinks,
                   initialMessage, threadTs, error, globCalls, calls, msgText,
                   anomalous>>

\* the overwrite is applied, then throw error
CautionReturns ==
    /\ pc = "caution_await"
    /\ msgText' = <<calls[Len(calls)].text>>
    /\ Reject(error[1])
    /\ UNCHANGED <<inputs, fs, assets, idx, lastCommitBody, downloadLinks,
                   initialMessage, threadTs, error, globCalls, calls,
                   anomalous>>

CautionThrows ==
    /\ pc = "caution_await"
    /\ Reject(TransportErr("caution"))
    /\ UNCHANGED <<inputs, fs, assets, idx, lastCommitBody, downloadLinks,
                   initialMessage, threadTs, error, globCalls, calls, msgText,
                   anomalous>>

MainPath ==
    \/ ConfigError
    \/ PostCall
    \/ PostReturns
    \/ PostThrows
    \/ UploadCall
    \/ UploadOk
    \/ UploadAnomalous
    \/ UploadThrows
    \/ UpdateCall
    \/ NoUpdate
    \/ UpdateReturns
    \/ UpdateThrows

Next ==
    \/ MainPath
    \/ SkipPrerelease
    \/ Enter
    \/ ResolveFails
    \/ ResolveOk
    \/ FileMissing
    \/ ReplyCall
    \/ SkipReply
    \/ ReplyReturns
    \/ ReplyThrows
    \/ CautionCall
    \/ Rethrow
    \/ CautionReturns
    \/ CautionThrows

Spec == Init /\ [][Next]_vars

----------------------------------------------------------------------------
(* success() of src/unnamed/part_000.  Its post, upload loop and update    *)
(* are the statements of src/index.js (MainPath); it differs in what       *)
(* follows.                                                                *)

\* no prerelease guard, no resolveAssets: the declared keys are the paths
LegacyEnter ==
    /\ pc = "entry"
    /\ slackToken # "" /\ slackChannel # ""
    /\ assets' = [i \in 1..Len(pluginConfig.assets) |->
                    [file |-> Concat(pluginConfig.assets[i].pattern),
                     label |-> pluginConfig.assets[i].label]]
    /\ lastCommitBody' = ExtractLastCommitBody(pluginConfig.lastCommitText, commits)
    /\ pc' = "post"
    /\ UNCHANGED <<inputs, fs, idx, downloadLinks, initialMessage, threadTs, error,
                   outcome, thrown, globCalls, calls, msgText,
                   anomalous>>

\* logger.warn('File not found'): the loop goes on
LegacyFileMissing ==
    /\ pc = "loop"
    /\ idx <= Len(assets)
    /\ ~existsSync(pathResolve(assets[idx].file), fs)
    /\ idx' = idx + 1
    /\ UNCHANGED <<inputs, fs, pc, assets, lastCommitBody, downloadLinks,
                   initialMessage, threadTs, error, outcome, thrown, globCalls, calls,
                   msgText,
                   anomalous>>

\* catch (error) { logger.error(...) }: the function ends normally
LegacyCatch ==
    /\ pc = "catch"
    /\ Return
    /\ UNCHANGED <<inputs, fs, assets, idx, lastCommitBody, downloadLinks,
                   initialMessage, threadTs, error, thrown, globCalls, calls, msgText,
                   anomalous>>

InitLegacy ==
    /\ Init
    /\ ~branch.prerelease

NextLegacy ==
    \/ MainPath
    \/ LegacyEnter
    \/ LegacyFileMissing
    \/ LegacyCatch

SpecLegacy == InitLegacy /\ [][NextLegacy]_vars

----------------------------------------------------------------------------
(* The same hook over the inputs that shape the message: every flag, a     *)
(* user template with both placeholders, commits with and without a body.  *)

ComposeMessages ==
    { <<>>, <<"Released ", VersionPlaceholder, ": ", NotesPlaceholder>> }

ComposeSections ==
    [changelog : BOOLEAN, lastCommitText : BOOLEAN, lastLine : LastLines,
     message : ComposeMessages]

ComposeCommitLists ==
    { <<>>,
      <<<<"fix: bug", "", "Details here", "Signed-off-by: X">>>>,
      <<<<"chore: release", "  ", "  co-authored-by: y">>>> }

ComposeDeclarations ==
    { <<>>, <<[pattern |-> <<"dist/*">>, label |-> "Binary"]>> }

ComposeConfigs ==
    { [assets |-> d, changelog |-> base.changelog,
       lastCommitText |-> base.lastCommitText, lastLine |-> base.lastLine,
       message |-> base.message,
       prerelease |-> [enabled |-> en, changelog |-> pre.changelog,
                       lastCommitText |-> pre.lastCommitText,
                       lastLine |-> pre.lastLine, message |-> pre.message]] :
        d \in ComposeDeclarations, en \in BOOLEAN,
        base \in ComposeSections, pre \in ComposeSections }

InitCompose ==
    /\ slackToken \in Tokens
    /\ slackChannel \in Channels
    /\ branch \in Branches
    /\ pluginConfig \in
         { c \in ComposeConfigs :
             IF branch.prerelease
             THEN [f \in DOMAIN DefaultSection |-> c[f]] = DefaultSection
             ELSE [f \in DOMAIN DefaultSection |-> c.prerelease[f]] = DefaultSection }
    /\ nextRelease \in [version : Versions, notes : Notes]
    /\ commits \in ComposeCommitLists
    /\ fs \in {{}, Files}
    /\ InitState

SpecCompose == InitCompose /\ [][Next]_vars

----------------------------------------------------------------------------
(* Vocabulary of the properties.                                           *)

Last(s) == s[Len(s)]

SiteCalls(sites) ==
    LET AtSite(c) == c.site \in sites
    IN  SelectSeq(calls, AtSite)

Finished == pc = "done"

\* A step of the main path failed: the catch block was entered.
StepFailed == error # <<>>

PostSucceeded == initialMessage # <<>>

CredentialsSet == slackToken # "" /\ slackChannel # ""

----------------------------------------------------------------------------
(* C1: a run in which resolution, the post, an upload, the update or the   *)
(* file-existence check failed ends by raising; it never returns normally. *)
C1_FailureNeverReturnsNormally ==
    (Finished /\ StepFailed) => outcome = "raised"

(* C2: when a step of the main path failed, the error that reaches the     *)
(* caller is that step's error, whatever the two recovery calls did.       *)
C2_OriginalErrorSurfaces ==
    (Finished /\ StepFailed) => (outcome = "raised" /\ thrown = error)

(* C3: resolution is all-or-nothing and precedes every transport call.     *)
(* (a) a step from the resolving position with an unmatched pattern enters *)
(* the failure path with the aggregate error and no call; (b) a run whose  *)
(* resolution failed never issues a call and ends raised with that error;  *)
(* (c) once any call was issued, every declared pattern was expanded and   *)
(* has one of its files among the resolved assets.                         *)
C3_UnmatchedPatternFails ==
    (pc = "resolve" /\ resolveAssets(rawAssets, nextRelease, fs).missingAssets # <<>>)
        => /\ pc' = "catch"
           /\ error' # <<>>
           /\ error'[1].kind = "missing-assets"
           /\ calls' = <<>>

C3_NoCallAfterFailedResolution ==
    /\ pc \in {"entry", "resolve"} => calls = <<>>
    /\ (StepFailed /\ error[1].kind = "missing-assets")
         => /\ calls = <<>>
            /\ Finished => (outcome = "raised" /\ thrown = error)

C3_CallsOnlyAfterFullResolution ==
    calls # <<>> =>
        /\ Len(globCalls) = Len(rawAssets)
        /\ \A i \in 1..Len(rawAssets) :
             LET interpolated == Concat(interpolateString(rawAssets[i].pattern, nextRelease))
                 matches == GlobCandidates(interpolated)
             IN  /\ globCalls[i] = interpolated
                 /\ \E k \in 1..Len(matches) : HasKey(assets, matches[k])

\* C3: an unmatched pattern fails the run before any transport call, and a
\* transport call is issued only after every declared pattern matched a file.
C3_ResolutionBeforeTransport ==
    /\ [][C3_UnmatchedPatternFails]_vars
    /\ [](C3_NoCallAfterFailedResolution /\ C3_CallsOnlyAfterFullResolution)

\* A run that declared an unmatched pattern has ended: raised, no call.
C3_Witness ==
    /\ Finished
    /\ StepFailed
    /\ error[1].kind = "missing-assets"
    /\ Len(rawAssets) = 2
    /\ Len(error[1].missing) = 1
    /\ outcome = "raised"
    /\ calls = <<>>

(* C4: after a successful post, a failed later step is followed by the     *)
(* thread reply and then the caution overwrite before the run ends; after  *)
(* a failed post (or a failed resolution) neither call is issued.          *)
C4_RecoveryInOrder ==
    (Finished /\ StepFailed) =>
        IF PostSucceeded
        THEN /\ SiteCalls({"reply", "caution"}) # <<>>
             /\ Len(calls) >= 3
             /\ calls[Len(calls) - 1].site = "reply"
             /\ calls[Len(calls) - 1].ts = initialMessage[1].ts
             /\ Last(calls).site = "caution"
             /\ Last(calls).ts = initialMessage[1].ts
             /\ Last(calls).text = Append(initialMessage[1].text, CautionSuffix)
             /\ Len(SiteCalls({"reply", "caution"})) = 2
        ELSE SiteCalls({"reply", "caution"}) = <<>>

(* C5: the caution overwrite writes the text the announcement holds at    *)
(* that moment followed by the caution suffix, and applying it only        *)
(* appends to that text: nothing the message held is lost.                 *)
C5_CautionStep ==
    /\ (pc # "caution_await" /\ pc' = "caution_await")
         => /\ msgText # <<>>
            /\ Last(calls').site = "caution"
            /\ Last(calls').text = Append(msgText[1], CautionSuffix)
    /\ (pc = "caution_await" /\ msgText' # msgText)
         => msgText' = <<Append(msgText[1], CautionSuffix)>>

\* C5: every caution overwrite writes, and leaves in the channel, the text
\* the announcement held followed by the caution suffix.
C5_CautionAppendsToCurrentText == [][C5_CautionStep]_vars

\* The update failed with links accumulated, and the overwrite was applied.
C5_Witness ==
    /\ Finished
    /\ StepFailed
    /\ SiteCalls({"update"}) # <<>>
    /\ Last(calls).site = "caution"
    /\ thrown = error
    /\ msgText = <<Append(calls[1].text, CautionSuffix)>>

(* C6: the thread identifier is set once, by the response of the initial   *)
(* post, and never changes; every upload, update, thread reply and caution *)
(* overwrite carries it, and none is issued while it is unset.             *)
C6_ThreadAnchor ==
    /\ threadTs # "" => (PostSucceeded /\ threadTs = initialMessage[1].ts)
    /\ threadTs = "" => SiteCalls({"upload", "update", "reply", "caution"}) = <<>>
    /\ \A i \in 1..Len(calls) :
         calls[i].site # "post" => (threadTs # "" /\ calls[i].ts = threadTs)

C6_SetOnceStep ==
    threadTs' # threadTs =>
        /\ threadTs = ""
        /\ pc = "post_await"
        /\ threadTs' \in TsIds

\* C6: the thread identifier is set once from the post's response, and every
\* later call carries it.
C6_ThreadIdFixed == []C6_ThreadAnchor /\ [][C6_SetOnceStep]_vars

\* One run issued an upload, the update, the reply and the overwrite.
C6_Witness ==
    /\ Finished
    /\ threadTs = "1700.2"
    /\ \A site \in {"upload", "update", "reply", "caution"} : SiteCalls({site}) # <<>>

(* C7: with credentials set, a prerelease branch without prerelease        *)
(* support returns normally: no glob expansion, no transport call.         *)
C7_PrereleaseSkip ==
    (CredentialsSet /\ isPrerelease /\ ~prereleaseEnabled) =>
        /\ pc \in {"entry", "done"}
        /\ calls = <<>>
        /\ globCalls = <<>>
        /\ assets = <<>>
        /\ ~StepFailed
        /\ Finished => (outcome = "returned" /\ thrown = <<>>)

\* The skip was taken although a declared pattern matches nothing.
C7_Witness ==
    /\ Finished
    /\ CredentialsSet /\ isPrerelease /\ ~prereleaseEnabled
    /\ outcome = "returned"
    /\ resolveAssets(rawAssets, nextRelease, fs).missingAssets # <<>>

\* The link lines the uploads of this run should have produced, in order.
RECURSIVE ExpectedLinks(_)
ExpectedLinks(objs) ==
    IF objs = <<>> THEN <<>>
    ELSE (IF \E i \in 1..Len(anomalous) : anomalous[i] = Head(objs).file
          THEN <<>>
          ELSE <<LinkLine(Head(objs).label, UrlOf(Head(objs).file))>>)
         \o ExpectedLinks(Tail(objs))

(* C8: with at least one link and no failed step, the announcement is      *)
(* overwritten once, in place, after every asset was processed, with the   *)
(* posted text, the Download Links section in upload order and the last    *)
(* line when there is one.                                                 *)
C8_UpdateInPlace ==
    (Finished /\ ~StepFailed /\ downloadLinks # <<>>) =>
        LET u == Last(calls)
            post == calls[1]
            n == Len(post.text)
            k == Len(downloadLinks)
            TopLevel(c) == c.api = "chat.postMessage" /\ c.ts = ""
        IN  /\ outcome = "returned"
            /\ u.site = "update" /\ u.api = "chat.update"
            /\ Len(SiteCalls({"update"})) = 1
            /\ Len(SelectSeq(calls, TopLevel)) = 1
            /\ post.site = "post"
            /\ u.channel = post.channel
            /\ u.ts = initialMessage[1].ts
            /\ Len(calls) = Len(assets) + 2
            /\ \A i \in 1..Len(assets) :
                 /\ calls[i + 1].site = "upload"
                 /\ calls[i + 1].file = pathResolve(assets[i].file)
            /\ downloadLinks = ExpectedLinks(assets)
            /\ SubSeq(u.text, 1, n) = post.text
            /\ u.text[n + 1] = DownloadLinksHeader
            /\ \A j \in 1..k : u.text[n + 2 * j] = downloadLinks[j]
            /\ \A j \in 1..(k - 1) : u.text[n + 2 * j + 1] = "\n"
            /\ IF lastLine # ""
               THEN /\ Len(u.text) = n + 2 * k + 2
                    /\ u.text[n + 2 * k + 1] = "\n\n"
                    /\ u.text[n + 2 * k + 2] = lastLine
               ELSE Len(u.text) = n + 2 * k
            /\ msgText = <<u.text>>

\* Two links and a last line were written after one upload was skipped.
C8_Witness ==
    /\ Finished
    /\ outcome = "returned"
    /\ Len(downloadLinks) = 2
    /\ Len(anomalous) = 1
    /\ lastLine # ""
    /\ Last(calls).site = "update"

(* C9: when the upload loop ends with no link, no update and no recovery   *)
(* call is issued, the announcement keeps the posted text and the run      *)
(* returns normally.                                                       *)
C9_NoLinksState ==
    (PostSucceeded /\ ~StepFailed /\ idx > Len(assets) /\ downloadLinks = <<>>) =>
        /\ pc \in {"loop", "done"}
        /\ SiteCalls({"update", "reply", "caution"}) = <<>>
        /\ msgText = <<calls[1].text>>
        /\ Finished => (outcome = "returned" /\ thrown = <<>>)

C9_NoLinksStep ==
    (pc = "loop" /\ idx > Len(assets) /\ downloadLinks = <<>>) =>
        /\ pc' = "done"
        /\ outcome' = "returned"
        /\ calls' = calls
        /\ msgText' = msgText

\* C9: a loop that ends without a link is followed by a normal return: no
\* update, no recovery call, the posted text kept.
C9_NoLinksNoUpdate == []C9_NoLinksState /\ [][C9_NoLinksStep]_vars

\* Every upload of the run was anomalous and the run returned.
C9_Witness ==
    /\ Finished
    /\ outcome = "returned"
    /\ downloadLinks = <<>>
    /\ Len(anomalous) = 2
    /\ Len(anomalous) = Len(assets)

(* C10: an anomalous upload response adds no link for its asset, does not  *)
(* enter the failure path and does not stop the loop: the remaining assets *)
(* are uploaded and a run with no throwing step returns normally.          *)
C10_AnomalyState ==
    /\ \A i \in 1..Len(anomalous) : \A j \in 1..Len(downloadLinks) :
         \A label \in Labels :
           downloadLinks[j] # LinkLine(label, UrlOf(anomalous[i]))
    /\ Len(downloadLinks) + Len(anomalous) <= Len(SiteCalls({"upload"}))
    /\ (Finished /\ ~StepFailed /\ PostSucceeded) =>
         /\ outcome = "returned"
         /\ SiteCalls({"reply", "caution"}) = <<>>
         /\ Len(SiteCalls({"upload"})) = Len(assets)
         /\ \A i \in 1..Len(assets) : SiteCalls({"upload"})[i].file = pathResolve(assets[i].file)
         /\ Len(downloadLinks) + Len(anomalous) = Len(assets)

C10_AnomalyStep ==
    anomalous' # anomalous =>
        /\ anomalous' = Append(anomalous, assets[idx].file)
        /\ downloadLinks' = downloadLinks
        /\ pc' = "loop"
        /\ idx' = idx + 1
        /\ error' = <<>>
        /\ outcome' = "running"
        /\ calls' = calls

\* C10: an anomalous upload response adds no link, raises nothing and lets
\* the loop upload the remaining assets.
C10_AnomalousResponseNonFatal == []C10_AnomalyState /\ [][C10_AnomalyStep]_vars

\* The first of three uploads was anomalous; the other two produced links.
C10_Witness ==
    /\ Finished
    /\ outcome = "returned"
    /\ Len(assets) = 3
    /\ anomalous = <<assets[1].file>>
    /\ Len(downloadLinks) = 2
    /\ Len(SiteCalls({"upload"})) = 3

(* C11: a resolved path that is gone when its turn comes fails the run:   *)
(* the loop never goes past such a path, no upload is issued for it or a   *)
(* later asset, no update is issued, the recovery starts and the run ends  *)
(* by raising.                                                             *)
C11_MissingFileFailsRun ==
    /\ \A i \in 1..Len(assets) :
         (PostSucceeded /\ i < idx) => existsSync(pathResolve(assets[i].file), fs)
    /\ (StepFailed /\ error[1].kind = "file-not-found") =>
         /\ ~existsSync(pathResolve(assets[idx].file), fs)
         /\ Len(SiteCalls({"upload"})) = idx - 1
         /\ SiteCalls({"update"}) = <<>>
         /\ pc \in {"catch", "reply_await", "catch_note", "caution_await", "done"}
         /\ pc # "catch" => SiteCalls({"reply"}) # <<>>
         /\ Finished => outcome = "raised"

(* C12: in every step the download-link list is unchanged or extended by   *)
(* one line at its end.                                                    *)
C12_LinksStep ==
    \/ downloadLinks' = downloadLinks
    \/ /\ Len(downloadLinks') = Len(downloadLinks) + 1
       /\ SubSeq(downloadLinks', 1, Len(downloadLinks)) = downloadLinks

\* C12: the download-link list only grows, by appending, on every path.
C12_LinksOnlyGrow == [][C12_LinksStep]_vars

\* Two links were accumulated and kept through the failure path.
C12_Witness ==
    /\ Finished
    /\ StepFailed
    /\ outcome = "raised"
    /\ Len(downloadLinks) = 2
    /\ downloadLinks[1] # downloadLinks[2]
    /\ SiteCalls({"caution"}) # <<>>

AwaitPositions ==
    {"post_await", "upload_await", "update_await", "reply_await", "caution_await"}

MainPathCalls == SiteCalls({"post", "upload", "update"})

(* C13: calls are sequential and never retried.  (a) a call is issued only *)
(* while none is awaited, one at a time; (b) the k-th upload is the k-th   *)
(* resolved asset and the post and the update are issued at most once;     *)
(* (c) once a step of the main path has thrown, no post, upload or update  *)
(* is issued any more.                                                     *)
C13_OneAtATimeStep ==
    calls' # calls =>
        /\ pc \notin AwaitPositions
        /\ pc' \in AwaitPositions
        /\ calls' = Append(calls, Last(calls'))

C13_NothingAfterThrowStep ==
    StepFailed => (MainPathCalls' = MainPathCalls /\ error' = error)

C13_InOrderNoRepeat ==
    /\ pc \in AwaitPositions => calls # <<>>
    /\ Len(SiteCalls({"upload"})) <= Len(assets)
    /\ \A k \in 1..Len(SiteCalls({"upload"})) :
         SiteCalls({"upload"})[k].file = pathResolve(assets[k].file)
    /\ Len(SiteCalls({"post"})) <= 1
    /\ Len(SiteCalls({"update"})) <= 1
    /\ SiteCalls({"update"}) # <<>> => Len(SiteCalls({"upload"})) = Len(assets)

\* C13: transport calls are issued one at a time, uploads in the order of
\* the resolved assets, and nothing of the main path follows a thrown call.
C13_SequentialNoRetry ==
    /\ []C13_InOrderNoRepeat
    /\ [][C13_OneAtATimeStep /\ C13_NothingAfterThrowStep]_vars

\* The second of three uploads threw: no third upload, no update.
C13_Witness ==
    /\ Finished
    /\ StepFailed
    /\ error[1] = TransportErr("upload")
    /\ Len(assets) = 3
    /\ Len(SiteCalls({"upload"})) = 2
    /\ SiteCalls({"update"}) = <<>>
    /\ outcome = "raised"

(* C14: with the token or the channel missing the run raises the           *)
(* configuration error at once: no glob expansion, no transport call, no   *)
(* recovery, also on a prerelease branch without prerelease support.       *)
C14_ConfigErrorFirst ==
    ~CredentialsSet =>
        /\ pc \in {"entry", "done"}
        /\ globCalls = <<>>
        /\ calls = <<>>
        /\ assets = <<>>
        /\ ~StepFailed
        /\ Finished => (outcome = "raised" /\ thrown = <<ConfigErr>>)

\* The channel is missing on a prerelease branch whose support is disabled.
C14_Witness ==
    /\ Finished
    /\ slackToken # "" /\ slackChannel = ""
    /\ isPrerelease /\ ~prereleaseEnabled
    /\ rawAssets # <<>>
    /\ outcome = "raised"
    /\ thrown = <<ConfigErr>>

\* The interpolated pattern of the i-th declaration and whether it matches.
InterpolatedPattern(i) == Concat(interpolateString(rawAssets[i].pattern, nextRelease))

Matches(i, file) ==
    \E k \in 1..Len(fastGlob(InterpolatedPattern(i), fs)) :
        fastGlob(InterpolatedPattern(i), fs)[k] = file

Unmatched == { i \in 1..Len(rawAssets) : fastGlob(InterpolatedPattern(i), fs) = <<>> }

ResolvedLabel(file) == assets[CHOOSE k \in 1..Len(assets) : assets[k].file = file].label

\* Resolution succeeds exactly when nothing is unmatched; on failure the
\* error lists the unmatched interpolated patterns, one per declaration, in
\* declaration order, after every declaration was expanded.
C15_SuccessOrAggregateError ==
    /\ pc = "post" => (Unmatched = {} /\ Len(globCalls) = Len(rawAssets))
    /\ (StepFailed /\ error[1].kind = "missing-assets") =>
         /\ Unmatched # {}
         /\ { error[1].missing[k] : k \in 1..Len(error[1].missing) }
              = { InterpolatedPattern(i) : i \in Unmatched }
         /\ Len(error[1].missing) = Cardinality(Unmatched)
         /\ Len(globCalls) = Len(rawAssets)
         /\ \A i \in 1..Len(rawAssets) : globCalls[i] = InterpolatedPattern(i)
         /\ error[1].message =
              "The following required assets were not found:\n"
                  \o Concat(Join(error[1].missing, "\n"))

(* C15 as stated: after a successful resolution every file matched by a    *)
(* declaration is a key of the result mapped to that declaration's label,  *)
(* and a failed resolution lists exactly the unmatched patterns.           *)
C15_EveryFileUnderItsDeclarationsLabel ==
    /\ C15_SuccessOrAggregateError
    /\ pc = "post" =>
         \A i \in 1..Len(rawAssets) : \A file \in Files :
             Matches(i, file) =>
                 /\ HasKey(assets, file)
                 /\ ResolvedLabel(file) = rawAssets[i].label

(* C15 as amended: after a successful resolution the keys of the result    *)
(* are exactly the matched files, each once, mapped to the label of the    *)
(* last declaration that matched it; a failed resolution lists exactly the *)
(* unmatched patterns.                                                     *)
C15_ResolutionResult ==
    /\ C15_SuccessOrAggregateError
    /\ pc = "post" =>
         /\ \A file \in Files :
              HasKey(assets, file) <=> \E i \in 1..Len(rawAssets) : Matches(i, file)
         /\ \A j, k \in 1..Len(assets) : assets[j].file = assets[k].file => j = k
         /\ \A i \in 1..Len(rawAssets) : \A file \in Files :
              (Matches(i, file)
                 /\ \A later \in (i + 1)..Len(rawAssets) : ~Matches(later, file))
                  => ResolvedLabel(file) = rawAssets[i].label

\* Two declarations with different labels matched the same file.
C15_Witness ==
    /\ pc = "post"
    /\ Len(rawAssets) = 2
    /\ rawAssets[1].label # rawAssets[2].label
    /\ \E file \in Files : Matches(1, file) /\ Matches(2, file)
    /\ Len(assets) = 2

\* A composed text: the interpolated template and a blank line, then the
\* Description section, then the Changelog section, each under its condition.
WellComposed(text) ==
    LET withDescription == includeLastCommitText /\ lastCommitBody # ""
        withChangelog == includeChangelog /\ nextRelease.notes # ""
        d == IF withDescription THEN 3 ELSE 0
        HasSegment(seg) == \E i \in 1..Len(text) : text[i] = seg
    IN  /\ Len(text) = 2 + d + (IF withChangelog THEN 3 ELSE 0)
        /\ text[1] = Concat(interpolateString(rawMessageTemplate, nextRelease))
        /\ text[2] = "\n\n"
        /\ HasSegment("*Description:*\n") <=> withDescription
        /\ HasSegment("*Changelog:*\n") <=> withChangelog
        /\ withDescription =>
             /\ text[3] = "*Description:*\n"
             /\ text[4] = lastCommitBody
             /\ text[5] = "\n\n"
        /\ withChangelog =>
             /\ text[3 + d] = "*Changelog:*\n"
             /\ text[4 + d] = nextRelease.notes
             /\ text[5 + d] = "\n\n"

(* C16: the text of the initial post is the interpolated template followed *)
(* by the Description section iff the flag is set and the excerpt is not   *)
(* empty, then the Changelog section iff the flag is set and the notes are *)
(* not empty; the update starts with the same text.                        *)
C16_MessageComposition ==
    /\ \A i \in 1..Len(calls) :
         calls[i].site = "post" => WellComposed(calls[i].text)
    /\ \A i \in 1..Len(calls) :
         calls[i].site = "update" =>
             /\ Len(calls[i].text) > Len(calls[1].text)
             /\ SubSeq(calls[i].text, 1, Len(calls[1].text)) = calls[1].text
             /\ calls[i].text[Len(calls[1].text) + 1] = DownloadLinksHeader
    /\ lastCommitBody # "" => includeLastCommitText

\* Both sections were composed from a user template, and the update followed.
C16_Witness ==
    /\ Finished
    /\ outcome = "returned"
    /\ pluginConfig.message # <<>>
    /\ Len(calls[1].text) = 8
    /\ calls[1].text[1] = "Released 1.2.0: fix bug"
    /\ Last(calls).site = "update"

\* The declaration that gives a matched file its label: the last that matches.
LastMatching(file) ==
    CHOOSE i \in 1..Len(rawAssets) :
        /\ Matches(i, file)
        /\ \A later \in (i + 1)..Len(rawAssets) : ~Matches(later, file)

ResolvedPaths == { file \in Files : HasKey(assets, file) }

(* C17: last write wins per path.  No path is uploaded twice; every upload *)
(* is of a resolved path and, when it is issued, carries the label of the  *)
(* last declaration that matched its file; the uploads never outnumber the *)
(* distinct resolved paths; and in a run that returns, every resolved path *)
(* was uploaded.                                                           *)
C17_LastWriteWinsOneUpload ==
    /\ \A k \in 1..Len(calls) :
         calls[k].site = "upload" =>
             /\ \A j \in 1..Len(calls) :
                  (calls[j].site = "upload" /\ calls[j].file = calls[k].file) => j = k
             /\ \E file \in ResolvedPaths : calls[k].file = pathResolve(file)
    /\ pc = "upload_await" =>
         /\ Last(calls).site = "upload"
         /\ \E file \in ResolvedPaths :
              /\ Last(calls).file = pathResolve(file)
              /\ \E i \in 1..Len(rawAssets) : Matches(i, file)
              /\ Last(calls).title = rawAssets[LastMatching(file)].label
    /\ Len(SiteCalls({"upload"})) <= Cardinality(ResolvedPaths)
    /\ (Finished /\ outcome = "returned") =>
         \A file \in ResolvedPaths :
             \E k \in 1..Len(calls) :
                 calls[k].site = "upload" /\ calls[k].file = pathResolve(file)

\* Two declarations with different labels matched the same file, and the run
\* returned after uploading it.
C17_Witness ==
    /\ Finished
    /\ outcome = "returned"
    /\ Len(rawAssets) = 2
    /\ rawAssets[1].label # rawAssets[2].label
    /\ \E file \in ResolvedPaths :
         /\ Matches(1, file) /\ Matches(2, file)
         /\ \E k \in 1..Len(calls) :
              /\ calls[k].site = "upload"
              /\ calls[k].file = pathResolve(file)
              /\ calls[k].title = rawAssets[2].label

(* C18: the recovery actions are independent.  A failed run in which the   *)
(* initial message exists never ends without the caution overwrite of that *)
(* message having been attempted, also when the thread error reply threw.  *)
C18_CautionAlwaysAttempted ==
    (Finished /\ StepFailed /\ PostSucceeded) => SiteCalls({"caution"}) # <<>>

----------------------------------------------------------------------------
(* The hook under the assumption that every awaited call returns or throws *)
(* and that the runtime keeps executing the function.  The inputs vary in  *)
(* what decides the number of steps: the credentials, the branch, the      *)
(* declarations (none, one, or two that may overlap) and the files on      *)
(* disk; the message options are defaults.                                 *)

FairDeclarations ==
    LET Decl == [pattern : RawPatterns, label : Labels]
    IN  {<<>>} \cup { <<a>> : a \in Decl }
               \cup { d \in Decl \X Decl : d[1].pattern # d[2].pattern }

InitFair ==
    /\ Init
    /\ pluginConfig.assets \in FairDeclarations
    /\ slackChannel # ""
    /\ nextRelease.notes # ""
    /\ [f \in DOMAIN DefaultSection |-> pluginConfig[f]] = DefaultSection
    /\ [f \in DOMAIN DefaultSection |-> pluginConfig.prerelease[f]] = DefaultSection

SpecFair == InitFair /\ [][Next]_vars /\ WF_vars(Next)

\* An upper bound on the steps a run can still take, by position.
StepsLeft ==
    CASE pc = "done" -> 0
      [] pc = "caution_await" -> 1
      [] pc = "catch_note" -> 2
      [] pc = "reply_await" -> 3
      [] pc = "catch" -> 4
      [] pc = "update_await" -> 5
      [] pc = "loop" -> 6 + 2 * (Len(assets) + 1 - idx)
      [] pc = "upload_await" -> 5 + 2 * (Len(assets) + 1 - idx)
      [] pc = "post_await" -> 7 + 2 * Cardinality(Files)
      [] pc = "post" -> 8 + 2 * Cardinality(Files)
      [] pc = "resolve" -> 9 + 2 * Cardinality(Files)
      [] pc = "entry" -> 10 + 2 * Cardinality(Files)

\* At most one call at each site but the upload's, one upload per resolved
\* path at most; recovery calls only in a run that does not return; no upload
\* after the update or a recovery call.
C19_BoundedCalls ==
    /\ \A site \in {"post", "update", "reply", "caution"} :
         Len(SiteCalls({site})) <= 1
    /\ \A j, k \in 1..Len(calls) :
         (calls[j].site = "upload" /\ calls[k].site = "upload"
            /\ calls[j].file = calls[k].file) => j = k
    /\ Len(SiteCalls({"upload"})) <= Cardinality(ResolvedPaths)
    /\ Len(calls) <= 4 + Cardinality(Files)
    /\ SiteCalls({"reply", "caution"}) # <<>> => outcome # "returned"
    /\ \A j, k \in 1..Len(calls) :
         (j < k /\ calls[j].site \in {"update", "reply", "caution"})
            => calls[k].site # "upload"

\* Every step brings the end nearer, and a finished run takes no step.
C19_ProgressStep ==
    /\ StepsLeft' < StepsLeft
    /\ StepsLeft' >= 0
    /\ outcome' = "running" <=> pc' # "done"

(* C19: every invocation terminates, returning or raising, if each call    *)
(* returns or throws; it issues at most one post, one upload per resolved  *)
(* path, one update, one thread reply and one caution overwrite; recovery  *)
(* calls occur only in runs that raise; no upload follows the update or a  *)
(* recovery call.                                                          *)
C19_TerminatesWithBoundedCalls ==
    /\ <>(Finished /\ outcome \in {"returned", "raised"})
    /\ []C19_BoundedCalls
    /\ [][C19_ProgressStep]_vars

\* The longest run: a post, two uploads, an update that threw, the reply and
\* the overwrite, then the error.
C19_Witness ==
    /\ Finished
    /\ outcome = "raised"
    /\ Len(SiteCalls({"post"})) = 1
    /\ Len(SiteCalls({"upload"})) >= 2
    /\ Len(SiteCalls({"update"})) = 1
    /\ Len(SiteCalls({"reply"})) = 1
    /\ Len(SiteCalls({"caution"})) = 1

====
